---- MODULE Spec2Model ----
(***************************************************************************)
(* The session-tracking engine of spotify-tracker (src/main.py): the       *)
(* credential globals, the tracker globals, the track_history table and    *)
(* the background polling loop, one action per handler.                    *)
(***************************************************************************)
EXTENDS Integers, Sequences, FiniteSets, TLC

\* ---------------------------------------------------------------- bounds
\* Poll cycles explored (each cycle sleeps POLL_INTERVAL seconds).
MaxCycles == 3
\* Authorization callbacks served.
MaxCallbacks == 1
\* Poll cycles in which a store write raises.
MaxStoreFailures == 1
NumCallers == 2
MaxReads == 1
MaxDashRows == 3
MaxRestarts == 1
\* Clock reading (seconds) when the process starts.
StartClock == 1000

\* ------------------------------------------------------ program constants
POLL_INTERVAL == 5
FALLBACK_DURATION == 180
DEFAULT_EXPIRES_IN == 3600
SAFETY_MARGIN == 60
MS_PER_SECOND == 1000
SECONDS_PER_MINUTE == 60
HTTP_OK == 200
HTTP_NO_CONTENT == 204
HTTP_UNAUTHORIZED == 401
HTTP_INTERNAL_SERVER_ERROR == 500

\* Python None in a string slot (token, track id) and in a numeric slot
\* (timestamp, expires_in).
None == "None"
NoneNum == -1

TrackIds == {"A", "B"}
Callers == 1..NumCallers

VARIABLES
    access_token,               \* global access_token
    refresh_token,              \* global refresh_token
    token_expires_at,           \* global token_expires_at
    current_track_id,           \* global current_track_id
    current_start_time,         \* global current_start_time
    current_track_duration,     \* global current_track_duration
    track_history,              \* rows of table track_history, in id order
    background_thread_started,  \* global _background_thread_started
    threads,                    \* polling threads launched
    now,                        \* wall clock, seconds
    reply,                      \* last answer of GET /current-track
    cyc,                        \* what the last poll cycle met and did
    hist,                       \* snapshots fed to the tracker so far, oldest first
    opens,                      \* transitions of the tracker into a live session
    changes,                    \* of those, transitions from one track to another
    idles,                      \* transitions of the tracker out of a live session
    store_failures,             \* poll cycles in which a store write raised
    callbacks,                  \* authorization callbacks served
    starter,                    \* where each caller of start_background_thread stands
    pending,                    \* writes the cycle under way has yet to make
    reader,                     \* a GET /current-track under way: position, locals
    reads,                      \* GET /current-track requests begun statement by statement
    dash,                       \* GET /dashboard: the rows it selects, its total_minutes
    restarts,                   \* restarts of the process so far
    twin                        \* tracker and table of the engine of src/spotifty/main.py

vars == <<access_token, refresh_token, token_expires_at, current_track_id,
          current_start_time, current_track_duration, track_history,
          background_thread_started, threads, now, reply, cyc, hist, opens,
          changes, idles, store_failures, callbacks, starter,
          pending, reader, reads, dash, restarts, twin>>

cred_vars == <<access_token, refresh_token, token_expires_at>>
tracker_vars == <<current_track_id, current_start_time, current_track_duration>>
ghost_vars == <<cyc, hist, opens, changes, idles, store_failures>>
step_vars == <<starter, pending, reader, reads, dash>>

\* dict.get(key, default)
Get(d, key, default) == IF key \in DOMAIN d THEN d[key] ELSE default

\* Python truthiness of a token / track-id slot and of a numeric slot.
Truthy(s) == s # None
TruthyNum(n) == n # NoneNum /\ n # 0

\* ------------------------------------------------------------ the store
\* Mutant: the UPDATE without its "end_time IS NULL" condition.
CloseOpen_Unconditional(rows, tid, t) ==
    [i \in DOMAIN rows |->
        IF rows[i].track_id = tid
        THEN [rows[i] EXCEPT !.end_time = t]
        ELSE rows[i]]

\* Mutant: the UPDATE with its condition inverted to "end_time IS NOT NULL".
CloseOpen_Inverted(rows, tid, t) ==
    [i \in DOMAIN rows |->
        IF rows[i].track_id = tid /\ rows[i].end_time # NoneNum
        THEN [rows[i] EXCEPT !.end_time = t]
        ELSE rows[i]]

\* UPDATE track_history SET end_time = t WHERE track_id = tid AND end_time IS NULL
CloseOpen(rows, tid, t) ==
    [i \in DOMAIN rows |->
        IF rows[i].track_id = tid /\ rows[i].end_time = NoneNum
        THEN [rows[i] EXCEPT !.end_time = t]
        ELSE rows[i]]

\* INSERT INTO track_history (track_id, ..., start_time) VALUES (tid, ..., t)
InsertRow(rows, tid, t) ==
    Append(rows, [track_id |-> tid, start_time |-> t, end_time |-> NoneNum])

\* A store write that may raise: the write takes effect only when it commits.
TryWrite(ok, before, after) == IF ok THEN after ELSE before

\* ------------------------------------------------------ token responses
\* What the token endpoint can answer: the request raises, a non-200 status,
\* or a 200 whose JSON body may lack fields or carry a null expires_in.
TokenBodies ==
    {[access_token |-> "a1", refresh_token |-> "r1", expires_in |-> 60],
     [access_token |-> "a2", refresh_token |-> "r2", expires_in |-> 65],
     [access_token |-> "a2", expires_in |-> 60],
     [access_token |-> "a2", refresh_token |-> "r2", expires_in |-> NoneNum],
     [refresh_token |-> "r1"]}
TokenResponses ==
    {[kind |-> "raise"], [kind |-> "http", status |-> HTTP_UNAUTHORIZED]}
    \cup {[kind |-> "http", status |-> HTTP_OK, tokens |-> b] : b \in TokenBodies}

\* int(expires_in) raises on a null.
CanInt(v) == v # NoneNum

\* refresh_access_token(): the credentials it leaves and what it returns.
\* cred is [access_token, refresh_token, token_expires_at]; t is the clock.
\* invoked: the function was entered; called: it sent its POST.
refresh_access_token(cred, r, t) ==
    IF ~Truthy(cred.refresh_token)
    THEN [cred |-> cred, ok |-> FALSE, called |-> FALSE, invoked |-> TRUE]
    ELSE IF r.kind = "raise"
    THEN [cred |-> cred, ok |-> FALSE, called |-> TRUE, invoked |-> TRUE]
    ELSE IF r.status # HTTP_OK
    THEN [cred |-> cred, ok |-> FALSE, called |-> TRUE, invoked |-> TRUE]
    ELSE LET at == Get(r.tokens, "access_token", None)
             ei == Get(r.tokens, "expires_in", DEFAULT_EXPIRES_IN)
         IN  IF ~CanInt(ei)
             THEN [cred |-> [cred EXCEPT !.access_token = at],
                   ok |-> FALSE, called |-> TRUE, invoked |-> TRUE]
             ELSE [cred |-> [cred EXCEPT !.access_token = at,
                                         !.token_expires_at = t + ei - SAFETY_MARGIN],
                   ok |-> TRUE, called |-> TRUE, invoked |-> TRUE]

\* The clock is past the stored expiry.
PastExpiry(cred, t) == cred.token_expires_at # NoneNum /\ t > cred.token_expires_at

\* Mutant: the loop refreshes on every cycle.
NeedsRefresh_Always(cred, t) == TRUE

\* Mutant: the loop refreshes only when it holds no access token.
NeedsRefresh_OnlyWithoutToken(cred, t) ==
    /\ TruthyNum(cred.token_expires_at) /\ t > cred.token_expires_at
    /\ ~Truthy(cred.access_token)

\* Mutant: the loop goes on to fetch when it holds either token.
HasToken_Either(cred) == Truthy(cred.access_token) \/ Truthy(cred.refresh_token)

\* "if not access_token: time.sleep(POLL_INTERVAL); continue", negated
HasToken(cred) == Truthy(cred.access_token)

\* "if token_expires_at and datetime.now().timestamp() > token_expires_at"
NeedsRefresh(cred, t) ==
    TruthyNum(cred.token_expires_at) /\ t > cred.token_expires_at

\* exchange_code_for_token(code): the credentials it leaves and its outcome
\* ("ok", "fail" for return False, "raise" for an exception out of the handler).
exchange_code_for_token(cred, r, t) ==
    IF r.kind = "raise"
    THEN [cred |-> cred, result |-> "raise"]
    ELSE IF r.status # HTTP_OK
    THEN [cred |-> cred, result |-> "fail"]
    ELSE LET at == Get(r.tokens, "access_token", None)
             rt == Get(r.tokens, "refresh_token", None)
             ei == Get(r.tokens, "expires_in", DEFAULT_EXPIRES_IN)
         IN  IF ~CanInt(ei)
             THEN [cred |-> [cred EXCEPT !.access_token = at, !.refresh_token = rt],
                   result |-> "raise"]
             ELSE [cred |-> [access_token |-> at, refresh_token |-> rt,
                             token_expires_at |-> t + ei - SAFETY_MARGIN],
                   result |-> "ok"]

\* ------------------------------------------------------- fetch outcomes
\* What GET /v1/me/player/currently-playing can yield: the request (or the
\* decoding of its body) raises, a 204, another non-200 status, or a 200 whose
\* JSON body may lack "item", "is_playing" or the item's "duration_ms".
Items == {[id |-> "A", duration_ms |-> 200999], [id |-> "B"]}
PlayerBodies ==
    {[item |-> it, is_playing |-> TRUE] : it \in Items}
    \cup {[item |-> [id |-> "A"], is_playing |-> FALSE],
          [is_playing |-> TRUE], [item |-> [id |-> "A"]]}
FetchOutcomes ==
    {[kind |-> "raise"],
     [kind |-> "http", status |-> HTTP_NO_CONTENT],
     [kind |-> "http", status |-> HTTP_UNAUTHORIZED]}
    \cup {[kind |-> "http", status |-> HTTP_OK, data |-> b] : b \in PlayerBodies}

\* "if not item or not is_playing" is false: a track is playing.
IsPlaying(data) ==
    /\ "item" \in DOMAIN data
    /\ Get(data, "is_playing", FALSE)

\* The snapshot a fetch outcome amounts to: "Error", "NoContent", "NotPlaying",
\* or the id of the playing track.
Snapshot(fo) ==
    IF fo.kind = "raise" THEN "Error"
    ELSE IF fo.status = HTTP_NO_CONTENT THEN "NoContent"
    ELSE IF fo.status # HTTP_OK THEN "Error"
    ELSE IF ~IsPlaying(fo.data) THEN "NotPlaying"
    ELSE fo.data.item.id

\* A snapshot as the tracker tells them apart when it is fed: 204 and
\* 200-not-playing take the same path ("Stop").
Feed(snap) == IF snap \in {"NoContent", "NotPlaying"} THEN "Stop" ELSE snap

\* ---------------------------------------------------------- the tracker
\* tr is [current_track_id, current_start_time, current_track_duration].
Live(tr) == Truthy(tr.current_track_id) /\ tr.current_start_time # NoneNum

\* Mutant: the stop branches test current_track_id instead.
WasTiming_ByTrackId(tr) == tr.current_track_id # None

\* "if current_start_time is not None" of the two stop branches.
WasTiming(tr) == tr.current_start_time # NoneNum

\* Mutant: the stop branches leave the cached duration as it is.
StopTracking_KeepDuration(tr, rows, t, closeOk) ==
    IF tr.current_start_time # NoneNum
    THEN [tr |-> [tr EXCEPT !.current_start_time = NoneNum],
          rows |-> TryWrite(closeOk, rows, CloseOpen(rows, tr.current_track_id, t)),
          updates |-> 1, inserts |-> 0, failed |-> ~closeOk]
    ELSE [tr |-> tr, rows |-> rows, updates |-> 0, inserts |-> 0, failed |-> FALSE]

\* The 204 branch and the "not item or not is_playing" branch: end the
\* current track if one was being timed, reset the cached duration.
StopTracking(tr, rows, t, closeOk) ==
    IF WasTiming(tr)
    THEN [tr |-> [tr EXCEPT !.current_start_time = NoneNum,
                            !.current_track_duration = FALLBACK_DURATION],
          rows |-> TryWrite(closeOk, rows, CloseOpen(rows, tr.current_track_id, t)),
          updates |-> 1, inserts |-> 0, failed |-> ~closeOk]
    ELSE [tr |-> [tr EXCEPT !.current_track_duration = FALLBACK_DURATION],
          rows |-> rows, updates |-> 0, inserts |-> 0, failed |-> FALSE]

\* "if duration_ms: current_track_duration = int(duration_ms / 1000)"
CacheDuration(tr, item) ==
    LET ms == Get(item, "duration_ms", NoneNum)
    IN  IF TruthyNum(ms)
        THEN [tr EXCEPT !.current_track_duration = ms \div MS_PER_SECOND]
        ELSE tr

\* Mutant: every playing snapshot is taken for a track change.
TrackChanged_Always(track_id, tr) == TRUE

\* "if track_id != current_track_id"
TrackChanged(track_id, tr) == track_id # tr.current_track_id

\* Mutant: the same-track branch restarts the timer on every cycle.
TimerCleared_Always(tr) == TRUE

\* "if current_start_time is None" of the same-track branch.
TimerCleared(tr) == tr.current_start_time = NoneNum

\* Mutant: the tracker moves to the new track only if its row was inserted.
TrackPlaying_OnlyIfInserted(tr, rows, item, t, closeOk, insertOk) ==
    LET tr1 == CacheDuration(tr, item)
        track_id == item.id
    IN  IF track_id # tr1.current_track_id
        THEN LET closing == tr1.current_track_id # None
                 rows1 == IF closing
                          THEN TryWrite(closeOk, rows,
                                        CloseOpen(rows, tr1.current_track_id, t))
                          ELSE rows
                 rows2 == TryWrite(insertOk, rows1, InsertRow(rows1, track_id, t))
             IN  [tr |-> IF insertOk
                         THEN [tr1 EXCEPT !.current_track_id = track_id,
                                          !.current_start_time = t]
                         ELSE tr1,
                  rows |-> rows2,
                  updates |-> IF closing THEN 1 ELSE 0, inserts |-> 1,
                  failed |-> (closing /\ ~closeOk) \/ ~insertOk]
        ELSE [tr |-> IF tr1.current_start_time = NoneNum
                     THEN [tr1 EXCEPT !.current_start_time = t]
                     ELSE tr1,
              rows |-> rows, updates |-> 0, inserts |-> 0, failed |-> FALSE]

\* The branch for a playing item: close the previous track and insert the new
\* one when the track id changed, otherwise restart the timer if it was cleared.
TrackPlaying(tr, rows, item, t, closeOk, insertOk) ==
    LET tr1 == CacheDuration(tr, item)
        track_id == item.id
    IN  IF TrackChanged(track_id, tr1)
        THEN LET closing == tr1.current_track_id # None
                 rows1 == IF closing
                          THEN TryWrite(closeOk, rows,
                                        CloseOpen(rows, tr1.current_track_id, t))
                          ELSE rows
                 rows2 == TryWrite(insertOk, rows1, InsertRow(rows1, track_id, t))
             IN  [tr |-> [tr1 EXCEPT !.current_track_id = track_id,
                                     !.current_start_time = t],
                  rows |-> rows2,
                  updates |-> IF closing THEN 1 ELSE 0, inserts |-> 1,
                  failed |-> (closing /\ ~closeOk) \/ ~insertOk]
        ELSE [tr |-> IF TimerCleared(tr1)
                     THEN [tr1 EXCEPT !.current_start_time = t]
                     ELSE tr1,
              rows |-> rows, updates |-> 0, inserts |-> 0, failed |-> FALSE]

\* What one cycle does with the outcome of its fetch.
ProcessFetch(tr, rows, fo, t, closeOk, insertOk) ==
    IF fo.kind = "raise"
    THEN [tr |-> tr, rows |-> rows, updates |-> 0, inserts |-> 0, failed |-> FALSE]
    ELSE IF fo.status = HTTP_NO_CONTENT
    THEN StopTracking(tr, rows, t, closeOk)
    ELSE IF fo.status # HTTP_OK
    THEN [tr |-> tr, rows |-> rows, updates |-> 0, inserts |-> 0, failed |-> FALSE]
    ELSE IF ~IsPlaying(fo.data)
    THEN StopTracking(tr, rows, t, closeOk)
    ELSE TrackPlaying(tr, rows, fo.data.item, t, closeOk, insertOk)

\* ------------------------------------------------------------- the state
Cred == [access_token |-> access_token, refresh_token |-> refresh_token,
         token_expires_at |-> token_expires_at]
Tracker == [current_track_id |-> current_track_id,
            current_start_time |-> current_start_time,
            current_track_duration |-> current_track_duration]

\* The record of a poll cycle, before any cycle has run.
NoCycle ==
    [ran |-> FALSE, expired |-> FALSE, refresh_called |-> FALSE,
     refresh_invoked |-> FALSE, offered_refresh_token |-> None,
     refreshed |-> FALSE, kept_token |-> TRUE, fetched |-> FALSE,
     snapshot |-> "none",
     pre |-> [current_track_id |-> None, current_start_time |-> NoneNum,
              current_track_duration |-> FALLBACK_DURATION],
     pre_rows |-> <<>>, updates |-> 0, inserts |-> 0, failed |-> FALSE,
     if_committed |-> [current_track_id |-> None, current_start_time |-> NoneNum,
                       current_track_duration |-> FALLBACK_DURATION]]
NoReply == [route |-> "none"]
NoReader == [pc |-> "idle"]
NoDash == [rows |-> <<>>, ran |-> FALSE, total_minutes |-> 0]
NoTwin == [tr |-> [current_track_id |-> None, current_start_time |-> NoneNum,
                   current_track_duration |-> FALLBACK_DURATION],
           rows |-> <<>>]

Boot ==
    /\ access_token = None
    /\ refresh_token = None
    /\ token_expires_at = NoneNum
    /\ current_track_id = None
    /\ current_start_time = NoneNum
    /\ current_track_duration = FALLBACK_DURATION
    /\ track_history = <<>>
    /\ background_thread_started = FALSE
    /\ threads = 0
    /\ now = StartClock
    /\ reply = NoReply
    /\ cyc = NoCycle
    /\ hist = <<>>
    /\ opens = 0
    /\ changes = 0
    /\ idles = 0
    /\ store_failures = 0
    /\ callbacks = 0
    /\ starter = [c \in Callers |-> "idle"]
    /\ pending = <<>>
    /\ reader = NoReader
    /\ reads = 0
    /\ restarts = 0
    /\ twin = NoTwin

Init == Boot /\ dash = NoDash

\* ------------------------------------------------------------ the actions
\* start_background_thread(): launch the polling thread unless already started.
start_background_thread ==
    /\ IF background_thread_started
       THEN UNCHANGED <<threads, background_thread_started>>
       ELSE /\ threads' = threads + 1
            /\ background_thread_started' = TRUE
    /\ UNCHANGED <<cred_vars, tracker_vars, track_history, now, reply,
                   ghost_vars, restarts, twin, callbacks, step_vars>>

\* GET /callback?code=...: exchange the code for tokens.
callback ==
    /\ background_thread_started
    /\ callbacks < MaxCallbacks
    /\ callbacks' = callbacks + 1
    /\ \E r \in TokenResponses :
          LET x == exchange_code_for_token(Cred, r, now)
          IN  /\ access_token' = x.cred.access_token
              /\ refresh_token' = x.cred.refresh_token
              /\ token_expires_at' = x.cred.token_expires_at
              /\ reply' = [route |-> "callback", result |-> x.result]
    /\ UNCHANGED <<tracker_vars, track_history, background_thread_started,
                   threads, now, ghost_vars, restarts, twin, step_vars>>

\* The row "ORDER BY start_time DESC LIMIT 1" picks among the rows of a track.
LatestRow(rows, tid) ==
    LET own == {i \in DOMAIN rows : rows[i].track_id = tid}
    IN  IF own = {} THEN 0
        ELSE CHOOSE i \in own : \A j \in own : rows[j].start_time <= rows[i].start_time

\* GET /current-track
current_track ==
    /\ background_thread_started
    /\ reply' =
         IF ~Truthy(access_token)
         THEN [route |-> "current-track", status |-> HTTP_UNAUTHORIZED,
               body |-> "User not authenticated"]
         ELSE IF ~Truthy(current_track_id) \/ current_start_time = NoneNum
         THEN [route |-> "current-track", status |-> HTTP_OK,
               body |-> "No track currently playing"]
         ELSE IF LatestRow(track_history, current_track_id) = 0
         THEN [route |-> "current-track", status |-> HTTP_OK,
               body |-> "Track info not found"]
         ELSE [route |-> "current-track", status |-> HTTP_OK, body |-> "track",
               track_id |-> track_history[LatestRow(track_history, current_track_id)].track_id,
               seconds_played |-> now - current_start_time,
               duration |-> current_track_duration]
    /\ UNCHANGED <<cred_vars, tracker_vars, track_history,
                   background_thread_started, threads, now, ghost_vars,
                   restarts, twin, callbacks, step_vars>>

\* The inputs a cycle can meet: a token response if it refreshes, a fetch
\* outcome if it fetches, and whether each store write it attempts commits.
RefreshInputs(refreshing) ==
    IF refreshing /\ Truthy(refresh_token) THEN TokenResponses ELSE {[kind |-> "raise"]}
FetchInputs(fetched) ==
    IF fetched THEN FetchOutcomes ELSE {[kind |-> "raise"]}
WriteInputs(attempted) ==
    IF attempted /\ store_failures < MaxStoreFailures THEN BOOLEAN ELSE {TRUE}
\* Mutant: the loop body runs outside "try ... except Exception".
Handled_InnerOnly(site) == site \in {"refresh", "store"}

\* The places of a cycle where an exception starts, each caught on the way
\* out: "refresh" inside refresh_access_token, "store" around each database
\* write, "fetch" (the request, the decoding of its body) by the loop's own
\* "except Exception".
Handled(site) == site \in {"refresh", "store", "fetch"}

\* The places where this cycle raised.
Raised(rr, rf, fetched, fo, st) ==
    (IF rf.called /\ ~rf.ok /\ (rr.kind = "raise" \/ rr.status = HTTP_OK)
     THEN {"refresh"} ELSE {})
    \cup (IF fetched /\ fo.kind = "raise" THEN {"fetch"} ELSE {})
    \cup (IF st.failed THEN {"store"} ELSE {})

NoFetch == [tr |-> Tracker, rows |-> track_history,
            updates |-> 0, inserts |-> 0, failed |-> FALSE]

\* The order in which a cycle makes its writes: a stop branch updates the
\* store, then clears the timer, then resets the duration; a playing branch
\* caches the duration, writes the store, then sets the track id, then the
\* timer.
WriteOrder(stop) ==
    IF stop
    THEN <<"rows", "current_start_time", "current_track_duration">>
    ELSE <<"current_track_duration", "rows", "current_track_id",
           "current_start_time">>

\* cur with one of its parts written as post has it; cur, post are [tr, rows].
Written(cur, post, part) ==
    IF part = "rows" THEN [cur EXCEPT !.rows = post.rows]
    ELSE [cur EXCEPT !.tr[part] = post.tr[part]]

\* The states of tracker and store a cycle passes through on its way from
\* cur to post, one per write that changes something, the last being post.
RECURSIVE IntermediateStates(_, _, _)
IntermediateStates(cur, post, order) ==
    IF order = <<>> THEN <<>>
    ELSE LET nxt == Written(cur, post, Head(order))
         IN  IF nxt = cur
             THEN IntermediateStates(cur, post, Tail(order))
             ELSE <<nxt>> \o IntermediateStates(nxt, post, Tail(order))

\* One iteration of the "while True" loop of background_track_polling():
\* with all of its writes at once (atomic), or with the first of them only,
\* the others left in pending.
PollCycle(atomic) ==
    /\ threads >= 1
    /\ pending = <<>>
    /\ now < StartClock + MaxCycles * POLL_INTERVAL
    /\ LET expired == PastExpiry(Cred, now)
           refreshing == NeedsRefresh(Cred, now)
       IN  \E rr \in RefreshInputs(refreshing) :
           \E rf \in {IF refreshing
                      THEN refresh_access_token(Cred, rr, now)
                      ELSE [cred |-> Cred, ok |-> FALSE, called |-> FALSE,
                            invoked |-> FALSE]} :
           LET fetched == HasToken(rf.cred)
           IN  \E fo \in FetchInputs(fetched) :
               \E good \in {IF fetched
                            THEN ProcessFetch(Tracker, track_history, fo, now,
                                              TRUE, TRUE)
                            ELSE NoFetch} :
               \E closeOk \in WriteInputs(good.updates > 0),
                  insertOk \in WriteInputs(good.inserts > 0) :
               \E st \in {IF closeOk /\ insertOk
                          THEN good
                          ELSE ProcessFetch(Tracker, track_history, fo, now,
                                            closeOk, insertOk)} :
               \E seq \in {IF atomic THEN <<>>
                           ELSE IntermediateStates(
                                    [tr |-> Tracker, rows |-> track_history],
                                    [tr |-> st.tr, rows |-> st.rows],
                                    WriteOrder(fetched /\ Feed(Snapshot(fo)) = "Stop"))} :
               \E ap \in {IF seq = <<>> THEN [tr |-> st.tr, rows |-> st.rows]
                          ELSE seq[1]} :
                   /\ access_token' = rf.cred.access_token
                   /\ refresh_token' = rf.cred.refresh_token
                   /\ token_expires_at' = rf.cred.token_expires_at
                   /\ current_track_id' = ap.tr.current_track_id
                   /\ current_start_time' = ap.tr.current_start_time
                   /\ current_track_duration' = ap.tr.current_track_duration
                   /\ track_history' = ap.rows
                   /\ pending' = IF seq = <<>> THEN <<>> ELSE Tail(seq)
                   /\ cyc' = [ran |-> TRUE, expired |-> expired,
                              refresh_called |-> rf.called,
                              refresh_invoked |-> rf.invoked,
                              offered_refresh_token |->
                                  IF rf.called /\ rr.kind = "http" /\ rr.status = HTTP_OK
                                  THEN Get(rr.tokens, "refresh_token", None)
                                  ELSE None,
                              refreshed |-> rf.ok,
                              kept_token |-> rf.cred.access_token = access_token,
                              fetched |-> fetched,
                              snapshot |-> IF fetched THEN Feed(Snapshot(fo)) ELSE "none",
                              pre |-> Tracker,
                              pre_rows |-> track_history,
                              updates |-> st.updates, inserts |-> st.inserts,
                              failed |-> st.failed,
                              if_committed |-> good.tr]
                   /\ hist' = IF fetched THEN Append(hist, Feed(Snapshot(fo))) ELSE hist
                   /\ opens' = IF Live(st.tr) /\ (~Live(Tracker) \/
                                   st.tr.current_track_id # current_track_id)
                               THEN opens + 1 ELSE opens
                   /\ changes' = IF Live(st.tr) /\ Live(Tracker) /\
                                     st.tr.current_track_id # current_track_id
                                  THEN changes + 1 ELSE changes
                   /\ idles' = IF Live(Tracker) /\ ~Live(st.tr)
                               THEN idles + 1 ELSE idles
                   /\ store_failures' = IF st.failed THEN store_failures + 1
                                        ELSE store_failures
                   /\ threads' = IF \A site \in Raised(rr, rf, fetched, fo, st) :
                                        Handled(site)
                                 THEN threads ELSE threads - 1
    /\ now' = now + POLL_INTERVAL
    /\ reply' = NoReply
    /\ UNCHANGED <<background_thread_started, callbacks, starter, reader,
                   reads, dash, restarts, twin>>

poll_cycle == PollCycle(TRUE)

Next ==
    \/ start_background_thread
    \/ callback
    \/ current_track
    \/ poll_cycle

Spec == Init /\ [][Next]_vars

\* The polling thread is a thread of its own that only ever sleeps for
\* POLL_INTERVAL or waits on requests with a timeout: while it runs, its next
\* cycle is eventually taken.
FairSpec == Spec /\ WF_vars(poll_cycle)

\* ------------------------------------- the engine of src/spotifty/main.py
\* What one cycle of background_track_polling() of src/spotifty/main.py does
\* with the outcome of its fetch, its store writes committing. Only a 200 is
\* looked at; data['item']['duration_ms'] raises KeyError when the item has
\* none, which ends the cycle before anything is assigned.
SpotiftyProcessFetch(tr, rows, fo, t) ==
    IF fo.kind = "raise" THEN [tr |-> tr, rows |-> rows]
    ELSE IF fo.status # HTTP_OK THEN [tr |-> tr, rows |-> rows]
    ELSE IF ~IsPlaying(fo.data)
    THEN [tr |-> [tr EXCEPT !.current_start_time = NoneNum,
                            !.current_track_duration = FALLBACK_DURATION],
          rows |-> rows]
    ELSE IF "duration_ms" \notin DOMAIN fo.data.item
    THEN [tr |-> tr, rows |-> rows]
    ELSE LET track_id == fo.data.item.id
             tr1 == [tr EXCEPT !.current_track_duration =
                                   fo.data.item.duration_ms \div MS_PER_SECOND]
         IN  IF track_id # tr1.current_track_id
             THEN LET rows1 == IF tr1.current_track_id # None
                               THEN CloseOpen(rows, tr1.current_track_id, t)
                               ELSE rows
                  IN  [tr |-> [tr1 EXCEPT !.current_track_id = track_id,
                                          !.current_start_time = t],
                       rows |-> InsertRow(rows1, track_id, t)]
             ELSE IF tr1.current_start_time = NoneNum
             THEN [tr |-> [tr1 EXCEPT !.current_start_time = t], rows |-> rows]
             ELSE [tr |-> tr1, rows |-> rows]

\* The snapshots the two engines are compared on: a 204, an error status, a
\* 200 that is not playing, a 200 playing a track whose item is complete.
CompleteItems == {[id |-> "A", duration_ms |-> 200999],
                  [id |-> "B", duration_ms |-> 150999]}
ComparedOutcomes ==
    {[kind |-> "http", status |-> HTTP_NO_CONTENT],
     [kind |-> "http", status |-> HTTP_UNAUTHORIZED],
     [kind |-> "http", status |-> HTTP_OK,
      data |-> [item |-> [id |-> "A"], is_playing |-> FALSE]]}
    \cup {[kind |-> "http", status |-> HTTP_OK,
           data |-> [item |-> it, is_playing |-> TRUE]] : it \in CompleteItems}

\* One cycle of each engine on the same snapshot, both holding a token and
\* every store write committing.
both_engines_cycle ==
    /\ now < StartClock + MaxCycles * POLL_INTERVAL
    /\ \E fo \in ComparedOutcomes :
       \E m \in {ProcessFetch(Tracker, track_history, fo, now, TRUE, TRUE)} :
           /\ current_track_id' = m.tr.current_track_id
           /\ current_start_time' = m.tr.current_start_time
           /\ current_track_duration' = m.tr.current_track_duration
           /\ track_history' = m.rows
           /\ twin' = SpotiftyProcessFetch(twin.tr, twin.rows, fo, now)
           /\ hist' = Append(hist, Feed(Snapshot(fo)))
    /\ now' = now + POLL_INTERVAL
    /\ UNCHANGED <<cred_vars, background_thread_started, threads, reply, cyc,
                   opens, changes, idles, store_failures, callbacks, starter,
                   pending, reader, reads, dash, restarts>>

EquivNext == both_engines_cycle

EquivSpec == Init /\ [][EquivNext]_vars

\* ---------------------------------------------------------- restart
\* The process ends and is started again: every module global is back at its
\* import-time value, the polling thread is gone until the first request of
\* the new process, and init_db() ("CREATE TABLE IF NOT EXISTS") keeps the
\* rows of track_history.
restart ==
    /\ restarts < MaxRestarts
    /\ pending = <<>>
    /\ restarts' = restarts + 1
    /\ access_token' = None
    /\ refresh_token' = None
    /\ token_expires_at' = NoneNum
    /\ current_track_id' = None
    /\ current_start_time' = NoneNum
    /\ current_track_duration' = FALLBACK_DURATION
    /\ background_thread_started' = FALSE
    /\ threads' = 0
    /\ callbacks' = 0
    /\ reply' = NoReply
    /\ cyc' = NoCycle
    /\ UNCHANGED <<track_history, now, hist, opens, changes, idles,
                   store_failures, starter, pending, reader, reads, dash,
                   twin>>

RestartNext ==
    \/ Next
    \/ restart

RestartSpec == Init /\ [][RestartNext]_vars

\* ------------------------------------- start_background_thread, statement
\* by statement, for callers that overlap: the test of the flag, the launch
\* of the thread, the setting of the flag.
start_check(c) ==
    /\ starter[c] = "idle"
    /\ starter' = [starter EXCEPT ![c] = IF background_thread_started
                                         THEN "done" ELSE "passed"]
    /\ UNCHANGED <<cred_vars, tracker_vars, track_history,
                   background_thread_started, threads, now, reply, ghost_vars,
                   restarts, twin, callbacks, pending, reader, reads, dash>>

start_launch(c) ==
    /\ starter[c] = "passed"
    /\ threads' = threads + 1
    /\ starter' = [starter EXCEPT ![c] = "launched"]
    /\ UNCHANGED <<cred_vars, tracker_vars, track_history,
                   background_thread_started, now, reply, ghost_vars, restarts,
                   twin, callbacks, pending, reader, reads, dash>>

start_set(c) ==
    /\ starter[c] = "launched"
    /\ background_thread_started' = TRUE
    /\ starter' = [starter EXCEPT ![c] = "done"]
    /\ UNCHANGED <<cred_vars, tracker_vars, track_history, threads, now, reply,
                   ghost_vars, restarts, twin, callbacks, pending, reader,
                   reads, dash>>

RaceNext ==
    \/ \E c \in Callers : start_check(c)
    \/ \E c \in Callers : start_launch(c)
    \/ \E c \in Callers : start_set(c)
    \/ callback
    \/ current_track
    \/ poll_cycle

RaceSpec == Init /\ [][RaceNext]_vars

\* ------------------------------------ a poll cycle write by write, and GET
\* /current-track statement by statement, so that the two can overlap.
poll_begin == PollCycle(FALSE)

poll_write ==
    /\ pending # <<>>
    /\ current_track_id' = Head(pending).tr.current_track_id
    /\ current_start_time' = Head(pending).tr.current_start_time
    /\ current_track_duration' = Head(pending).tr.current_track_duration
    /\ track_history' = Head(pending).rows
    /\ pending' = Tail(pending)
    /\ UNCHANGED <<cred_vars, background_thread_started, threads, now, reply,
                   ghost_vars, restarts, twin, callbacks, starter, reader,
                   reads, dash>>

read_vars ==
    <<cred_vars, tracker_vars, track_history,
      background_thread_started, threads, now, ghost_vars,
      restarts, twin, callbacks, starter, pending, dash>>

\* "if not access_token: return ..., 401"
read_auth ==
    /\ background_thread_started
    /\ reader.pc = "idle"
    /\ reads < MaxReads
    /\ reads' = reads + 1
    /\ IF ~Truthy(access_token)
       THEN /\ reply' = [route |-> "current-track", status |-> HTTP_UNAUTHORIZED,
                         body |-> "User not authenticated"]
            /\ reader' = NoReader
       ELSE /\ reply' = NoReply
            /\ reader' = [pc |-> "check"]
    /\ UNCHANGED read_vars

\* "if not current_track_id or not current_start_time: return ..."
read_check ==
    /\ reader.pc = "check"
    /\ IF ~Truthy(current_track_id) \/ current_start_time = NoneNum
       THEN /\ reply' = [route |-> "current-track", status |-> HTTP_OK,
                         body |-> "No track currently playing"]
            /\ reader' = NoReader
       ELSE /\ reply' = NoReply
            /\ reader' = [pc |-> "elapsed"]
    /\ UNCHANGED <<read_vars, reads>>

\* "seconds_played = int((now - current_start_time).total_seconds())": the
\* subtraction raises TypeError on None and the request ends in a 500.
read_elapsed ==
    /\ reader.pc = "elapsed"
    /\ IF current_start_time = NoneNum
       THEN /\ reply' = [route |-> "current-track",
                         status |-> HTTP_INTERNAL_SERVER_ERROR,
                         body |-> "TypeError"]
            /\ reader' = NoReader
       ELSE /\ reply' = NoReply
            /\ reader' = [pc |-> "query", start_time |-> current_start_time,
                          seconds_played |-> now - current_start_time]
    /\ UNCHANGED <<read_vars, reads>>

\* "SELECT ... WHERE track_id=? ORDER BY start_time DESC LIMIT 1"
read_query ==
    /\ reader.pc = "query"
    /\ IF LatestRow(track_history, current_track_id) = 0
       THEN /\ reply' = [route |-> "current-track", status |-> HTTP_OK,
                         body |-> "Track info not found"]
            /\ reader' = NoReader
       ELSE /\ reply' = NoReply
            /\ reader' = [pc |-> "respond", start_time |-> reader.start_time,
                          seconds_played |-> reader.seconds_played,
                          track_id |-> track_history[
                              LatestRow(track_history, current_track_id)].track_id]
    /\ UNCHANGED <<read_vars, reads>>

\* "return jsonify({..., 'seconds_played': ..., 'duration': current_track_duration})"
read_respond ==
    /\ reader.pc = "respond"
    /\ reply' = [route |-> "current-track", status |-> HTTP_OK, body |-> "track",
                 track_id |-> reader.track_id,
                 seconds_played |-> reader.seconds_played,
                 duration |-> current_track_duration]
    /\ reader' = [reader EXCEPT !.pc = "idle"]
    /\ UNCHANGED <<read_vars, reads>>

InterleavedNext ==
    \/ start_background_thread
    \/ callback
    \/ poll_begin
    \/ poll_write
    \/ read_auth
    \/ read_check
    \/ read_elapsed
    \/ read_query
    \/ read_respond

InterleavedSpec == Init /\ [][InterleavedNext]_vars

\* ------------------------------------------------------------ dashboard
\* A timestamp column as stored text: "full" is "%Y-%m-%d %H:%M:%S.%f";
\* "nofraction" is what the store's adapter writes for a datetime whose
\* microsecond is 0; "garbage" is any other text. ms is the instant written,
\* in milliseconds. "null" is NULL.
Timestamp(form, ms) == [form |-> form, ms |-> ms]
Null == Timestamp("null", 0)
StartTexts == {Timestamp("full", 0), Timestamp("nofraction", 0)}
EndTexts == {Null, Timestamp("full", 29500), Timestamp("full", 30500),
             Timestamp("full", 60000), Timestamp("garbage", 0)}
DashRows == [start_time : StartTexts, end_time : EndTexts]

RECURSIVE SeqsUpTo(_, _)
SeqsUpTo(S, n) ==
    IF n = 0 THEN {<<>>}
    ELSE LET shorter == SeqsUpTo(S, n - 1)
         IN  shorter \cup {Append(q, x) : q \in shorter, x \in S}

\* datetime.strptime(text, "%Y-%m-%d %H:%M:%S.%f") raises unless the text is
\* in that form.
StrptimeRaises(text) == text.form # "full"

\* Mutant: the seconds of a session are rounded to the nearest.
RowSeconds_Rounded(row) ==
    IF StrptimeRaises(row.start_time) THEN [raised |-> TRUE, seconds |-> 0]
    ELSE IF row.end_time # Null /\ StrptimeRaises(row.end_time)
    THEN [raised |-> TRUE, seconds |-> 0]
    ELSE IF row.end_time = Null THEN [raised |-> FALSE, seconds |-> 0]
    ELSE [raised |-> FALSE,
          seconds |-> (row.end_time.ms - row.start_time.ms + 500) \div MS_PER_SECOND]

\* The body of the "try" for one row: what it adds to total_seconds, or that
\* it raised. int() cuts the fraction of (end_time - start_time).total_seconds().
RowSeconds(row) ==
    IF StrptimeRaises(row.start_time) THEN [raised |-> TRUE, seconds |-> 0]
    ELSE IF row.end_time # Null /\ StrptimeRaises(row.end_time)
    THEN [raised |-> TRUE, seconds |-> 0]
    ELSE IF row.end_time = Null THEN [raised |-> FALSE, seconds |-> 0]
    ELSE [raised |-> FALSE,
          seconds |-> (row.end_time.ms - row.start_time.ms) \div MS_PER_SECOND]

\* "for row in rows: try: ... except Exception: continue"
RECURSIVE TotalSeconds(_, _)
TotalSeconds(rows, total_seconds) ==
    IF rows = <<>> THEN total_seconds
    ELSE LET r == RowSeconds(Head(rows))
         IN  TotalSeconds(Tail(rows),
                          IF r.raised THEN total_seconds
                          ELSE total_seconds + r.seconds)

\* GET /dashboard, its total_minutes.
dashboard ==
    /\ ~dash.ran
    /\ dash' = [dash EXCEPT !.ran = TRUE,
                            !.total_minutes =
                                TotalSeconds(dash.rows, 0) \div SECONDS_PER_MINUTE]
    /\ UNCHANGED <<cred_vars, tracker_vars, track_history,
                   background_thread_started, threads, now, reply, ghost_vars,
                   restarts, twin, callbacks, starter, pending, reader, reads>>

DashInit ==
    /\ Boot
    /\ dash \in {[rows |-> q, ran |-> FALSE, total_minutes |-> 0] :
                     q \in SeqsUpTo(DashRows, MaxDashRows)}

DashNext == dashboard

DashSpec == DashInit /\ [][DashNext]_vars

\* ================================================================ claims
NonPlaying == {"Stop"}
OpenRows(rows, tid) ==
    {i \in DOMAIN rows : rows[i].track_id = tid /\ rows[i].end_time = NoneNum}
ClosedRows(rows) == {i \in DOMAIN rows : rows[i].end_time # NoneNum}
NoOpenRow(rows) == \A i \in DOMAIN rows : rows[i].end_time # NoneNum

\* C1: with every store write succeeding, the transitions of the tracker into
\* a live session (from none, or from another track) number the rows inserted,
\* the transitions out of one (to idle, or to another track) number the rows
\* closed, and no row has end_time NULL once a non-playing snapshot is processed.
C1_TransitionsMatchWrites ==
    store_failures = 0 =>
        /\ opens = Len(track_history)
        /\ idles + changes = Cardinality(ClosedRows(track_history))
        /\ (cyc.ran /\ cyc.snapshot \in NonPlaying) => NoOpenRow(track_history)

\* C2: track_history holds at most one row per track_id whose end_time is NULL.
C2_AtMostOneOpenRowPerTrack ==
    \A t \in TrackIds : Cardinality(OpenRows(track_history, t)) <= 1

\* C3: after Playing(T), non-playing, Playing(T) (store writes succeeding)
\* track_history holds two rows for T, the first closed and the second open.
C3_ResumeIsTwoSessions ==
    (hist = <<"A", "Stop", "A">> /\ store_failures = 0) =>
        /\ Len(track_history) = 2
        /\ \A i \in DOMAIN track_history : track_history[i].track_id = "A"
        /\ track_history[1].end_time # NoneNum
        /\ track_history[2].end_time = NoneNum

\* C4: an Error snapshot met while a session for T is live closes the open
\* row of T (its end_time is set) and leaves the tracker idle.
C4_ErrorClosesSession ==
    (cyc.ran /\ cyc.snapshot = "Error" /\ Live(cyc.pre)) =>
        /\ ~Live(Tracker)
        /\ OpenRows(track_history, cyc.pre.current_track_id) = {}

\* C5: Playing(A), Playing(A), Playing(B) from the initial state (store writes
\* succeeding) makes two inserts and one close: the row of A has end_time set,
\* the row of B has end_time NULL, and current_track_id is B.
C5_TrackChange ==
    (hist = <<"A", "A", "B">> /\ store_failures = 0) =>
        /\ Len(track_history) = 2
        /\ track_history[1].track_id = "A"
        /\ track_history[1].end_time = track_history[2].start_time
        /\ track_history[1].start_time < track_history[1].end_time
        /\ track_history[2].track_id = "B"
        /\ track_history[2].end_time = NoneNum
        /\ current_track_id = "B"
        /\ current_start_time = track_history[2].start_time
C5_Witness ==
    /\ hist = <<"A", "A", "B">>
    /\ store_failures = 0
    /\ cyc.updates = 1 /\ cyc.inserts = 1

\* C6: Playing(A) then a 204 (or a 200 that is not playing; store writes
\* succeeding) leaves the row of A closed and the tracker idle, and a
\* /current-track request served afterwards by an authenticated process
\* answers "No track currently playing".
C6_NoContentAfterPlaying ==
    (hist = <<"A", "Stop">> /\ cyc.snapshot = "Stop" /\ store_failures = 0) =>
        /\ Len(track_history) = 1
        /\ track_history[1].track_id = "A"
        /\ track_history[1].end_time = now - POLL_INTERVAL
        /\ ~Live(Tracker)
        /\ (reply.route = "current-track" /\ Truthy(access_token)) =>
               /\ reply.status = HTTP_OK
               /\ reply.body = "No track currently playing"
C6_Witness ==
    /\ hist = <<"A", "Stop">>
    /\ cyc.snapshot = "Stop"
    /\ store_failures = 0
    /\ reply.route = "current-track"
    /\ Truthy(access_token)

\* C7: a non-playing snapshot (204, or 200 with no item or is_playing false)
\* processed while the tracker is idle writes nothing to track_history and
\* leaves the tracker state as it was.
C7_IdleNonPlayingIsNoOp ==
    (cyc.ran /\ cyc.snapshot \in NonPlaying /\ ~Live(cyc.pre)) =>
        /\ cyc.updates = 0
        /\ cyc.inserts = 0
        /\ track_history = cyc.pre_rows
        /\ Tracker = cyc.pre
C7_Witness ==
    /\ cyc.ran
    /\ cyc.snapshot \in NonPlaying
    /\ ~Live(cyc.pre)
    /\ Len(hist) >= 3
    /\ hist[Len(hist) - 1] = "Stop"
    /\ hist[Len(hist) - 2] \in TrackIds

\* C8: a Playing(T) snapshot processed while the tracker has a live session
\* for T makes no insert and no update and leaves current_track_id and
\* current_start_time as they were.
C8_SameTrackIsNoOp ==
    (cyc.ran /\ cyc.snapshot \in TrackIds /\ Live(cyc.pre)
       /\ cyc.pre.current_track_id = cyc.snapshot) =>
        /\ cyc.updates = 0
        /\ cyc.inserts = 0
        /\ track_history = cyc.pre_rows
        /\ current_track_id = cyc.pre.current_track_id
        /\ current_start_time = cyc.pre.current_start_time
C8_Witness ==
    /\ cyc.ran
    /\ cyc.snapshot \in TrackIds
    /\ Live(cyc.pre)
    /\ cyc.pre.current_track_id = cyc.snapshot
    /\ current_start_time < now - POLL_INTERVAL

\* C9: a row of track_history whose end_time is set is never changed by a
\* later step, in end_time or in any other field.
C9_ClosedRowImmutable ==
    [][\A i \in DOMAIN track_history :
          track_history[i].end_time # NoneNum =>
              /\ i \in DOMAIN track_history'
              /\ track_history'[i] = track_history[i]]_vars
C9_Witness ==
    /\ cyc.ran
    /\ cyc.updates = 1
    /\ ~cyc.failed
    /\ \E i \in DOMAIN cyc.pre_rows :
          /\ cyc.pre_rows[i].track_id = cyc.pre.current_track_id
          /\ cyc.pre_rows[i].end_time # NoneNum

\* C10: in a cycle where token_expires_at has passed and the refresh attempt
\* fails, no fetch is made with the stale access_token.
C10_NoFetchAfterFailedRefresh ==
    (cyc.ran /\ cyc.expired /\ cyc.refresh_called /\ ~cyc.refreshed) =>
        ~(cyc.fetched /\ cyc.kept_token)

\* C11: a cycle that starts past token_expires_at with a refresh_token held
\* sends exactly one refresh request, whether or not earlier ones failed, and
\* a cycle that does not start past token_expires_at (as after a refresh that
\* succeeded, until the new expiry passes) sends none.
C11_OneRefreshPerStaleCycle ==
    [][now' # now =>
          /\ (PastExpiry(Cred, now) /\ Truthy(refresh_token)) =>
                 (cyc'.refresh_invoked /\ cyc'.refresh_called)
          /\ ~PastExpiry(Cred, now) =>
                 (~cyc'.refresh_invoked /\ ~cyc'.refresh_called)]_vars
C11_Witness ==
    /\ cyc.ran
    /\ ~cyc.refresh_called
    /\ cyc.fetched
    /\ access_token = "a2"
    /\ refresh_token = "r1"
    /\ token_expires_at >= now - POLL_INTERVAL

\* C12: in every cycle that sends a fetch and started past token_expires_at,
\* refresh_access_token was called before the fetch.
C12_RefreshAttemptedBeforeStaleUse ==
    (cyc.ran /\ cyc.fetched /\ cyc.expired) => cyc.refresh_invoked
C12_Witness ==
    /\ cyc.ran
    /\ cyc.fetched
    /\ cyc.expired
    /\ ~cyc.refreshed
    /\ cyc.kept_token

\* C13: a call of exchange_code_for_token that fails (the request raises, the
\* status is not 200, or the 200 body lacks access_token or refresh_token or
\* carries an expires_in that is no number) leaves access_token, refresh_token
\* and token_expires_at as they were.
C13_FailedExchangeKeepsCredential ==
    [][(/\ callbacks' # callbacks
        /\ \/ reply'.result # "ok"
           \/ ~Truthy(access_token')
           \/ ~Truthy(refresh_token'))
       => UNCHANGED cred_vars]_vars

\* C14: a refresh request that fails (the request raises, the status is not
\* 200, or the 200 body carries no usable token) is reported as a failure and
\* leaves access_token and token_expires_at as they were.
C14_FailedRefreshKeepsCredential ==
    [][(/\ now' # now
        /\ cyc'.refresh_called
        /\ (~cyc'.refreshed \/ ~Truthy(access_token')))
       => /\ ~cyc'.refreshed
          /\ access_token' = access_token
          /\ token_expires_at' = token_expires_at]_vars

\* C15: after a refresh that succeeded, refresh_token is the one the response
\* supplied, or the earlier one when the response supplied none.
C15_RefreshRotatesRefreshToken ==
    [][(now' # now /\ cyc'.refreshed)
       => refresh_token' = IF Truthy(cyc'.offered_refresh_token)
                           THEN cyc'.offered_refresh_token
                           ELSE refresh_token]_vars

\* C16: the polling loop does not end because of a cycle that went wrong:
\* once the thread runs, its cycles keep coming, up to the last one the
\* clock bound admits.
EndClock == StartClock + MaxCycles * POLL_INTERVAL
C16_LoopKeepsCycling == (threads >= 1) ~> (threads >= 1 /\ now = EndClock)
C16_Witness ==
    /\ threads >= 1
    /\ now = EndClock
    /\ store_failures > 0
    /\ cyc.ran
    /\ ~cyc.failed
    /\ "Error" \in {hist[i] : i \in DOMAIN hist}

\* C17: however the callers of start_background_thread overlap, the polling
\* thread is launched once: never twice, and once when every caller is back.
C17_OnePollingThread ==
    /\ threads <= 1
    /\ (\A c \in Callers : starter[c] = "done") => threads = 1

\* C18: a GET /current-track that overlaps a poll cycle never ends in an
\* error for reading current_start_time as None after it passed the test, and
\* what it answers with (track, start of the count, duration) is the tracker
\* as it stood before the cycle or as the cycle leaves it.
AfterCycle == IF pending = <<>> THEN Tracker ELSE pending[Len(pending)].tr
C18_NoTornRead ==
    (reply.route = "current-track" /\ reply.status # HTTP_UNAUTHORIZED) =>
        /\ reply.status # HTTP_INTERNAL_SERVER_ERROR
        /\ reply.body = "track" =>
               \E tr \in {cyc.pre, AfterCycle} :
                   /\ reply.track_id = tr.current_track_id
                   /\ reader.start_time = tr.current_start_time
                   /\ reply.duration = tr.current_track_duration

\* C19: total_minutes is the whole minutes in the sum, over the rows that have
\* an end_time and whose timestamps parse, of the whole seconds between
\* start_time and end_time; rows without end_time and rows whose timestamps
\* do not parse add nothing and do not stop the sum.
Counted(rows) ==
    {i \in DOMAIN rows :
        /\ rows[i].start_time.form = "full"
        /\ rows[i].end_time.form = "full"}
WholeSeconds(row) ==
    CHOOSE k \in 0..(row.end_time.ms - row.start_time.ms) :
        /\ k * MS_PER_SECOND <= row.end_time.ms - row.start_time.ms
        /\ row.end_time.ms - row.start_time.ms < (k + 1) * MS_PER_SECOND
RECURSIVE SumOver(_, _)
SumOver(rows, idx) ==
    IF idx = {} THEN 0
    ELSE LET i == CHOOSE j \in idx : TRUE
         IN  WholeSeconds(rows[i]) + SumOver(rows, idx \ {i})
C19_TotalMinutes ==
    dash.ran =>
        /\ dash.total_minutes * SECONDS_PER_MINUTE
               <= SumOver(dash.rows, Counted(dash.rows))
        /\ SumOver(dash.rows, Counted(dash.rows))
               < (dash.total_minutes + 1) * SECONDS_PER_MINUTE
C19_Witness ==
    /\ dash.ran
    /\ Len(dash.rows) = 3
    /\ dash.rows[1].end_time.form = "garbage"
    /\ dash.rows[2].end_time = Null
    /\ dash.rows[3] = [start_time |-> Timestamp("full", 0),
                       end_time |-> Timestamp("full", 60000)]
    /\ dash.total_minutes = 1

\* C20: at the end of every poll cycle, if the tracker has a live session
\* (current_track_id and current_start_time both set), track_history holds a
\* row for current_track_id whose end_time is NULL.
C20_LiveSessionHasOpenRow ==
    (cyc.ran /\ Live(Tracker)) => OpenRows(track_history, current_track_id) # {}

\* C21: at the end of a poll cycle that leaves the tracker idle
\* (current_start_time is None) current_track_duration is the fallback, and it
\* is the fallback after every cycle whose snapshot is a 204 or a 200 that is
\* not playing.
C21_IdleDurationIsFallback ==
    /\ (cyc.ran /\ current_start_time = NoneNum) =>
           current_track_duration = FALLBACK_DURATION
    /\ (cyc.ran /\ cyc.snapshot \in NonPlaying) =>
           current_track_duration = FALLBACK_DURATION
C21_Witness ==
    /\ cyc.ran
    /\ cyc.snapshot \in NonPlaying
    /\ cyc.pre.current_start_time # NoneNum
    /\ cyc.pre.current_track_duration # FALLBACK_DURATION
    /\ current_start_time = NoneNum
    /\ current_track_duration = FALLBACK_DURATION

\* C22: a poll cycle that holds no access_token when it comes to fetch makes
\* no fetch, writes nothing to track_history and leaves current_track_id,
\* current_start_time and current_track_duration as they were.
C22_NoTokenCycleIsNoOp ==
    [][(now' # now /\ ~Truthy(access_token'))
       => /\ ~cyc'.fetched
          /\ track_history' = track_history
          /\ UNCHANGED tracker_vars]_vars
C22_Witness ==
    /\ cyc.ran
    /\ ~cyc.fetched
    /\ cyc.refreshed
    /\ ~Truthy(access_token)
    /\ Live(Tracker)
    /\ Len(track_history) = 1

\* C23: after a restart of the process (store writes succeeding) no track has
\* two rows with end_time NULL, and a cycle that finds nothing playing leaves
\* no row open, the row left open before the restart included.
C23_RestartKeepsStoreConsistent ==
    (restarts > 0 /\ store_failures = 0) =>
        /\ \A t \in TrackIds : Cardinality(OpenRows(track_history, t)) <= 1
        /\ (cyc.ran /\ cyc.snapshot \in NonPlaying) => NoOpenRow(track_history)

\* C24: the tracker a poll cycle leaves is the one it would leave had its
\* store writes committed, whether they did or raised; and a cycle that follows
\* a cycle with a failed write and meets the same snapshot writes nothing.
C24_TrackerIgnoresWriteOutcome ==
    [][now' # now =>
          /\ current_track_id' = cyc'.if_committed.current_track_id
          /\ current_start_time' = cyc'.if_committed.current_start_time
          /\ current_track_duration' = cyc'.if_committed.current_track_duration
          /\ (cyc.ran /\ cyc.failed /\ cyc'.fetched /\ cyc'.snapshot = cyc.snapshot)
                 => (cyc'.updates = 0 /\ cyc'.inserts = 0)]_vars
C24_Witness ==
    /\ cyc.ran
    /\ ~cyc.failed
    /\ store_failures > 0
    /\ hist = <<"A", "A">>
    /\ track_history = <<>>
    /\ Live(Tracker)

\* C25: fed the same snapshots from the initial state, every store write
\* committing, the engine of src/main.py and the engine of
\* src/spotifty/main.py hold the same rows in track_history (the same inserts
\* and closes at the same times) and the same tracker state.
C25_EnginesAgree ==
    /\ twin.rows = track_history
    /\ twin.tr = Tracker
====
